---- MODULE Spec2Model ----
(***************************************************************************)
(* Model of extract-dbaccess-info: the two exporters of dumpdbinfo.py      *)
(* (dump_db_info_to_csv, dump_db_info_to_excel), their helpers             *)
(* (create_hyperlink, adjust_column_widths), the cell coercion of the      *)
(* workbook writer, and the command entry point of main.py.                *)
(*                                                                         *)
(* Text is a sequence of one-character strings, so that endswith, join,    *)
(* title validation and duplicate-name suffixing are computed on the       *)
(* characters as the code (and the workbook library it calls) computes     *)
(* them.  Column widths are kept in half units (suffix 2) because the      *)
(* header weight is 1.5 times a length.                                    *)
(***************************************************************************)
EXTENDS Integers, Sequences, FiniteSets, TLC

VARIABLES
    pc,         \* position of the running entry point ("idle" before a call)
    args,       \* arguments of the exporter call being run
    out_dir,    \* the exporter's local output_dir after lines 39-40 / 193-194
    dirs,       \* directories created on disk
    files,      \* files written on disk
    wb,         \* the workbook: its sheets in order
    ti,         \* index of the next table of the per-table loop
    err,        \* the exception that ended the call ("" when none)
    main_pc,    \* next call site of main.py's __main__ block
    main_log,   \* calls of main.py that completed, in order
    conn_ok,    \* whether the database connection of this run succeeds
    exit_code,  \* exit status of the process (-1 while it runs)
    cell_in,    \* the cell value handed to the coercion step
    cell_out,   \* what the coercion step produced for it
    column,     \* adjust_column_widths: text lengths of the column's cells
    max_width,  \* adjust_column_widths: the ceiling
    width2      \* adjust_column_widths: the width set, in half units

vars == <<pc, args, out_dir, dirs, files, wb, ti, err, main_pc, main_log,
          conn_ok, exit_code, cell_in, cell_out, column, max_width, width2>>

(***************************************************************************)
(* Bounds of the model.                                                    *)
(***************************************************************************)
MaxTables == 2
MaxRecords == 2
MaxCells == 2
MaxTextLen == 4

(***************************************************************************)
(* Text helpers.                                                           *)
(***************************************************************************)
Min(a, b) == IF a <= b THEN a ELSE b
Max(a, b) == IF a >= b THEN a ELSE b

RECURSIVE SeqMax(_)
SeqMax(s) == IF s = <<>> THEN 0 ELSE Max(Head(s), SeqMax(Tail(s)))

\* str.endswith
EndsWith(s, suffix) ==
    /\ Len(suffix) <= Len(s)
    /\ SubSeq(s, Len(s) - Len(suffix) + 1, Len(s)) = suffix

StartsWith(s, prefix) ==
    /\ Len(prefix) <= Len(s)
    /\ SubSeq(s, 1, Len(prefix)) = prefix

\* os.path.join of two components
PathJoin(a, b) ==
    IF StartsWith(b, <<"/">>) THEN b
    ELSE IF a = <<>> \/ EndsWith(a, <<"/">>) THEN a \o b
    ELSE a \o <<"/">> \o b

\* the directory part of a path: everything before its last separator
RECURSIVE DirName(_)
DirName(p) ==
    IF p = <<>> THEN <<>>
    ELSE IF p[Len(p)] = "/" THEN SubSeq(p, 1, Len(p) - 1)
    ELSE DirName(SubSeq(p, 1, Len(p) - 1))

\* str.lower on the letters the model's names use
LowerChar(c) ==
    CASE c = "A" -> "a"
      [] c = "T" -> "t"
      [] c = "X" -> "x"
      [] OTHER -> c

Lower(s) == [k \in 1..Len(s) |-> LowerChar(s[k])]

Digits == <<"0", "1", "2", "3", "4", "5", "6", "7", "8", "9">>

IsDigit(c) == \E d \in 1..10 : Digits[d] = c

DigitValue(c) == (CHOOSE d \in 1..10 : Digits[d] = c) - 1

\* int(text) of a run of digits
RECURSIVE ParseInt(_)
ParseInt(s) ==
    IF s = <<>> THEN 0
    ELSE 10 * ParseInt(SubSeq(s, 1, Len(s) - 1)) + DigitValue(s[Len(s)])

\* str(n) of a natural number
RECURSIVE IntToStr(_)
IntToStr(n) ==
    IF n < 10 THEN <<Digits[n + 1]>>
    ELSE IntToStr(n \div 10) \o <<Digits[(n % 10) + 1]>>

(***************************************************************************)
(* Literals of the source.                                                 *)
(***************************************************************************)
\* "Tables": the index sheet's title (dumpdbinfo.py:207) and the target of
\* every return link (dumpdbinfo.py:263)
TablesTitle == <<"T", "a", "b", "l", "e", "s">>

\* "Table" and "Record Count": the index sheet's headers
TableHeader == <<"T", "a", "b", "l", "e">>
RecordCountHeader ==
    <<"R", "e", "c", "o", "r", "d", " ", "C", "o", "u", "n", "t">>

\* "Return to Tables": the display text of a data sheet's return link
ReturnText ==
    <<"R", "e", "t", "u", "r", "n", " ", "t", "o", " ",
      "T", "a", "b", "l", "e", "s">>

\* the columns of every table of the model: one column named "c"
TableColumns == <<(<<"c">>)>>

XlsxExt == <<".", "x", "l", "s", "x">>
CsvExt == <<".", "c", "s", "v">>

\* max_width=80 of adjust_column_widths
DefaultMaxWidth == 80

\* max_records_per_table=50000 of dump_db_info_to_excel
DefaultMaxRecords == 50000

\* the number of characters a sheet title may have before the workbook
\* library objects (create_sheet, dumpdbinfo.py:233)
SheetTitleMax == 31

\* the characters a sheet title may not contain (create_sheet raises)
InvalidTitleChars == {"\\", "*", "?", ":", "/", "[", "]"}

(***************************************************************************)
(* The workbook library's sheet naming, as create_sheet and the title      *)
(* setter apply it to the title the exporter passes.                       *)
(***************************************************************************)
MatchesAt(s, v, p) ==
    /\ p + Len(v) - 1 <= Len(s)
    /\ Lower(SubSeq(s, p, p + Len(v) - 1)) = Lower(v)

RECURSIVE DigitRunEnd(_, _)
DigitRunEnd(s, p) ==
    IF p <= Len(s) /\ IsDigit(s[p]) THEN DigitRunEnd(s, p + 1) ELSE p

\* the numeric suffixes that follow an occurrence of v in s, scanning left
\* to right without overlap: findall of "(v)(\d*),?" ignoring case
RECURSIVE TitleCounts(_, _, _)
TitleCounts(s, v, p) ==
    IF p > Len(s) THEN {}
    ELSE IF MatchesAt(s, v, p)
    THEN LET q == p + Len(v)
             e == DigitRunEnd(s, q)
             nxt == IF e <= Len(s) /\ s[e] = "," THEN e + 1 ELSE e
             here == IF e > q THEN {ParseInt(SubSeq(s, q, e - 1))} ELSE {}
         IN  here \cup TitleCounts(s, v, nxt)
    ELSE TitleCounts(s, v, p + 1)

\* ",".join(names)
RECURSIVE JoinNames(_)
JoinNames(names) ==
    IF names = <<>> THEN <<>>
    ELSE IF Len(names) = 1 THEN names[1]
    ELSE names[1] \o <<",">> \o JoinNames(Tail(names))

SetMax(S) == IF S = {} THEN 0 ELSE CHOOSE m \in S : \A x \in S : x <= m

\* a title that equals an existing one ignoring case gets the next number
avoid_duplicate_name(names, value) ==
    IF \E k \in 1..Len(names) : Lower(names[k]) = Lower(value)
    THEN value \o IntToStr(SetMax(TitleCounts(JoinNames(names), value, 1)) + 1)
    ELSE value

sheetnames(book) == [k \in 1..Len(book) |-> book[k].title]

HasInvalidChar(title) == \E k \in 1..Len(title) : title[k] \in InvalidTitleChars

(***************************************************************************)
(* Pure functions of the exporter.                                         *)
(***************************************************************************)
\* a variant of HeadRows that lets one row too many through
HeadRowsOffByOne(nrows, n) ==
    IF n >= 0 THEN Min(nrows, n + 1) ELSE Max(nrows + n, 0)

\* DataFrame.head(n): the first n rows, or all but the last -n when n < 0
HeadRows(nrows, n) ==
    IF n >= 0 THEN Min(nrows, n) ELSE Max(nrows + n, 0)

\* a variant of RecordCount that counts the columns, len(dataframe.columns)
RecordCountOfColumns(table) == Len(TableColumns)

\* len(dataframe), the count of the index row (dumpdbinfo.py:220)
RecordCount(table) == table.nrows

\* the classes a value of each type is an instance of
TypeBases(type) ==
    CASE type = "bool" -> {"bool", "int"}
      [] type = "datetime" -> {"datetime", "date"}
      [] type = "Timestamp" -> {"Timestamp", "datetime", "date"}
      [] OTHER -> {type}

IsInstance(v, types) == TypeBases(v.type) \cap types # {}

NoValue == [type |-> "NoneType", day |-> 0, time |-> 0, text |-> "None"]

Returned(v) == [raised |-> FALSE, exc |-> "", val |-> v]
Raised(exc) == [raised |-> TRUE, exc |-> exc, val |-> NoValue]

\* str(value)
StrOf(v) == [type |-> "str", day |-> 0, time |-> 0, text |-> v.text]

\* Timestamp.to_pydatetime(): the same instant as a datetime
ToPyDatetime(v) == [v EXCEPT !.type = "datetime"]

\* value.date(): datetime has the method and it drops the time of day;
\* a plain date has no such attribute
DateOf(v) ==
    IF "datetime" \in TypeBases(v.type)
    THEN Returned([v EXCEPT !.type = "date", !.time = 0])
    ELSE Raised("AttributeError")

\* the cell coercion of dump_db_info_to_excel (dumpdbinfo.py:242-248)
CoerceCell(value) ==
    IF IsInstance(value, {"Timestamp"}) THEN Returned(ToPyDatetime(value))
    ELSE IF IsInstance(value, {"date"}) THEN DateOf(value)
    ELSE IF ~IsInstance(value, {"int", "float", "NoneType"})
         THEN Returned(StrOf(value))
         ELSE Returned(value)

\* a variant of ColumnWidth2 without the weight of the header
ColumnWidth2NoHeaderWeight(lens, ceiling) ==
    Min(2 * SeqMax(lens) + 4, 2 * ceiling)

\* adjust_column_widths for one column: lens are the text lengths of its
\* cells, the header's first; the result is in half units
ColumnWidth2(lens, ceiling) ==
    LET header_length == lens[1]
        adjusted_header_length2 == 3 * header_length
        max_length2 == Max(2 * SeqMax(lens), adjusted_header_length2)
    IN  Min(max_length2 + 4, 2 * ceiling)

\* adjust_column_widths over a sheet's columns
adjust_column_widths(cols, ceiling) ==
    [c \in 1..Len(cols) |-> ColumnWidth2(cols[c], ceiling)]

(***************************************************************************)
(* Inputs the calls are drawn from.                                        *)
(***************************************************************************)
\* a table name longer than a sheet title may be
LongName == [k \in 1..(SheetTitleMax + 1) |-> "x"]

NameSet == {TablesTitle, <<"a">>, <<"A">>, <<"a", "/">>, LongName}

DbNames == {<<"d">>}

OutputDirs == {<<"o">>, <<"o", "/", "d">>, <<"o", "d">>}

\* a table: its name (the mapping's key) and len(dataframe)
Tables == [name : NameSet, nrows : 0..MaxRecords]

\* a mapping in iteration order: its keys are distinct
TableLists ==
    UNION {{tl \in [1..n -> Tables] :
               \A j, k \in 1..n : j # k => tl[j].name # tl[k].name} :
           n \in 0..MaxTables}

CapSet == (-1..1) \cup {DefaultMaxRecords}

CellValues ==
    {[type |-> "int", day |-> 0, time |-> 0, text |-> "7"],
     [type |-> "float", day |-> 0, time |-> 0, text |-> "1.5"],
     [type |-> "bool", day |-> 0, time |-> 0, text |-> "True"],
     [type |-> "str", day |-> 0, time |-> 0, text |-> "ab"],
     [type |-> "object", day |-> 0, time |-> 0, text |-> "VARCHAR(5)"],
     NoValue}
    \cup [type : {"date"}, day : {1}, time : {0}, text : {"2024-01-01"}]
    \cup [type : {"datetime", "Timestamp"}, day : {1}, time : {0, 1},
          text : {"2024-01-01 00:00"}]

\* a column of adjust_column_widths: the text length of its header cell,
\* then of its data cells
ColumnSet ==
    UNION {[1..n -> 0..MaxTextLen] : n \in 1..(MaxCells + 1)}

CeilingSet == {DefaultMaxWidth, MaxTextLen}

(***************************************************************************)
(* The disk.                                                               *)
(***************************************************************************)
\* os.makedirs(path, exist_ok=True): the directory and its missing parents
MakeDirs(path) ==
    {SubSeq(path, 1, k) : k \in {j \in 1..Len(path) :
                                    j = Len(path) \/ path[j + 1] = "/"}}

\* a variant of ResolveOutputDir that appends the directory in every case
ResolveOutputDirAlwaysJoin(output_dir, db_name) == PathJoin(output_dir, db_name)

\* lines 39-40 and 193-194: the database's directory is appended unless
\* output_dir already ends with db_name
ResolveOutputDir(output_dir, db_name) ==
    IF ~EndsWith(output_dir, db_name)
    THEN PathJoin(output_dir, db_name)
    ELSE output_dir

(***************************************************************************)
(* Sheets and hyperlinks.                                                  *)
(***************************************************************************)
NewSheet(title, table) ==
    [title |-> title, table |-> table, header |-> <<>>, nrows |-> 0,
     index_rows |-> <<>>, links |-> {}, freeze_panes |-> "",
     auto_filter |-> FALSE, widths2 |-> <<>>]

\* create_hyperlink: the cell at (col, row) of ws links to cell_ref of the
\* sheet named sheet_name; a cell holds one hyperlink
create_hyperlink(ws, col, row, sheet_name, cell_ref, display_name) ==
    [ws EXCEPT !.links =
        {l \in @ : ~(l.col = col /\ l.row = row)}
        \cup {[col |-> col, row |-> row, display |-> display_name,
               sheet |-> sheet_name, cell_ref |-> cell_ref]}]

\* a variant of AddSheet that puts the new sheet first
AddSheetFirst(book, sheet) == <<sheet>> \o book

\* where create_sheet puts a new sheet in the workbook: at the end
AddSheet(book, sheet) == Append(book, sheet)

\* workbook.create_sheet(title=table_name), as the set of its possible
\* outcomes: a forbidden character raises; a title already taken (ignoring
\* case) gets a numeric suffix; a title over the length limit raises in the
\* library versions that enforce the limit and is kept, with a warning, in
\* the others
create_sheet(book, table_name, table) ==
    IF HasInvalidChar(table_name) THEN {[raised |-> TRUE, book |-> book]}
    ELSE LET title == avoid_duplicate_name(sheetnames(book), table_name)
             kept == [raised |-> FALSE,
                      book |-> AddSheet(book, NewSheet(title, table))]
         IN  IF Len(title) > SheetTitleMax
             THEN {[raised |-> TRUE, book |-> book], kept}
             ELSE {kept}

\* what the coercion of a sheet's cells can come to, over the values a
\* cell may hold: whether it raises, and what
CoercionOutcomes ==
    {[raised |-> CoerceCell(v).raised, exc |-> CoerceCell(v).exc] :
        v \in CellValues}

\* lines 206-226: the index sheet with its header, one row per table,
\* column widths and filter
IndexSheet(tables, include_record_count) ==
    LET names == [k \in 1..Len(tables) |-> tables[k].name]
        counts == [k \in 1..Len(tables) |-> RecordCount(tables[k])]
        colA == <<Len(TableHeader)>> \o [k \in 1..Len(tables) |-> Len(names[k])]
        colB == <<Len(RecordCountHeader)>>
                \o [k \in 1..Len(tables) |-> Len(IntToStr(counts[k]))]
    IN  [NewSheet(TablesTitle, 0) EXCEPT
            !.header = IF include_record_count
                       THEN <<TableHeader, RecordCountHeader>>
                       ELSE <<TableHeader>>,
            !.nrows = Len(tables),
            !.index_rows = [k \in 1..Len(tables) |->
                              [name |-> names[k],
                               count |-> IF include_record_count
                                         THEN counts[k] ELSE -1]],
            !.widths2 = adjust_column_widths(
                            IF include_record_count THEN <<colA, colB>>
                            ELSE <<colA>>, DefaultMaxWidth),
            !.auto_filter = TRUE]

\* lines 236-266 on the sheet just created: header and limited rows written,
\* header frozen, filter set, return link in the cell after the last column.
\* The sheet keeps the number of rows, not their cells, so of the widths
\* only the return column's (line 266) is kept; a data column's width is
\* ColumnWidth2 of its cells' text lengths.
FillDataSheet(sheet, limited_rows) ==
    LET last_col_idx == Len(TableColumns) + 1
        filled == [sheet EXCEPT
                      !.freeze_panes = "A2",
                      !.header = TableColumns,
                      !.nrows = limited_rows,
                      !.auto_filter = TRUE,
                      !.widths2 = [c \in {last_col_idx} |->
                                      2 * (Len(ReturnText) + 2)]]
    IN  create_hyperlink(filled, last_col_idx, 1, TablesTitle, "A1", ReturnText)

\* lines 270-271: each index row's first cell links to the sheet named by
\* the cell's own value
RECURSIVE LinkIndexRows(_, _)
LinkIndexRows(sheet, row) ==
    IF row > sheet.nrows + 1 THEN sheet
    ELSE LET value == sheet.index_rows[row - 1].name
         IN  LinkIndexRows(
                 create_hyperlink(sheet, 1, row, value, "A1", value), row + 1)

(***************************************************************************)
(* main.py: the call sites of the __main__ block (lines 19-25) with the    *)
(* number of positional arguments each passes, and the number of           *)
(* parameters without a default of each function's signature.              *)
(***************************************************************************)
MainCalls ==
    <<[fn |-> "get_db_info_metadata", positional |-> 1],
      [fn |-> "dump_db_info_to_csv", positional |-> 2],
      [fn |-> "dump_db_info_to_excel", positional |-> 2],
      [fn |-> "get_db_info_data", positional |-> 1],
      [fn |-> "dump_db_info_to_csv", positional |-> 2],
      [fn |-> "dump_db_info_to_excel", positional |-> 2]>>

RequiredPositional(fn) ==
    CASE fn = "get_db_info_metadata" -> 1
      [] fn = "get_db_info_data" -> 1
      [] fn = "dump_db_info_to_csv" -> 3
      [] fn = "dump_db_info_to_excel" -> 3

Connects(fn) == fn \in {"get_db_info_metadata", "get_db_info_data"}

(***************************************************************************)
(* The state machine.  A behaviour is one call of one entry point: an      *)
(* exporter, the command, the coercion of one cell, or the sizing of one   *)
(* column.                                                                 *)
(***************************************************************************)
NoArgs ==
    [fn |-> "", db_name |-> <<>>, output_dir |-> <<>>, tables |-> <<>>,
     include_record_count |-> FALSE, max_records_per_table |-> 0]

Init ==
    /\ pc = "idle"
    /\ args = NoArgs
    /\ out_dir = <<>>
    /\ dirs = {}
    /\ files = {}
    /\ wb = <<>>
    /\ ti = 0
    /\ err = ""
    /\ main_pc = 0
    /\ main_log = <<>>
    /\ conn_ok = FALSE
    /\ exit_code = -1
    /\ cell_in = NoValue
    /\ cell_out = Returned(NoValue)
    /\ column = <<>>
    /\ max_width = 0
    /\ width2 = 0

MainVars == <<main_pc, main_log, conn_ok, exit_code>>
CellVars == <<cell_in, cell_out>>
WidthVars == <<column, max_width, width2>>

\* dump_db_info_to_excel, lines 192-226: the directory is resolved and
\* created (or os.makedirs raises), the workbook gets its index sheet
dump_db_info_to_excel ==
    /\ pc = "idle"
    /\ \E db_name \in DbNames, output_dir \in OutputDirs, tables \in TableLists,
          include_record_count \in BOOLEAN, max_records_per_table \in CapSet,
          made \in BOOLEAN :
          /\ args' = [fn |-> "dump_db_info_to_excel", db_name |-> db_name,
                      output_dir |-> output_dir, tables |-> tables,
                      include_record_count |-> include_record_count,
                      max_records_per_table |-> max_records_per_table]
          /\ out_dir' = ResolveOutputDir(output_dir, db_name)
          /\ IF made
             THEN /\ dirs' = dirs \cup MakeDirs(out_dir')
                  /\ wb' = <<IndexSheet(tables, include_record_count)>>
                  /\ ti' = 1
                  /\ pc' = "x_sheets"
                  /\ err' = ""
             ELSE /\ pc' = "error"
                  /\ err' = "OSError"
                  /\ UNCHANGED <<dirs, wb, ti>>
    /\ UNCHANGED <<files, MainVars, CellVars, WidthVars>>

\* one iteration of the loop of lines 228-266: the table's sheet is created
\* and written.  create_sheet may raise, and so may the coercion of a cell
\* of the limited rows; either ends the call.
WriteDataSheet ==
    /\ pc = "x_sheets"
    /\ ti <= Len(args.tables)
    /\ \E created \in create_sheet(wb, args.tables[ti].name, ti),
          coerced \in CoercionOutcomes :
          LET table == args.tables[ti]
              limited_rows == HeadRows(table.nrows, args.max_records_per_table)
              book == created.book
          IN  IF created.raised
              THEN /\ pc' = "error"
                   /\ err' = "ValueError"
                   /\ UNCHANGED <<wb, ti>>
              ELSE IF limited_rows >= 1 /\ coerced.raised
              THEN /\ pc' = "error"
                   /\ err' = coerced.exc
                   /\ wb' = book
                   /\ UNCHANGED ti
              ELSE /\ wb' = [book EXCEPT
                                ![Len(book)] = FillDataSheet(@, limited_rows)]
                   /\ ti' = ti + 1
                   /\ UNCHANGED <<pc, err>>
    /\ UNCHANGED <<args, out_dir, dirs, files, MainVars, CellVars, WidthVars>>

\* lines 269-275: the index rows are linked and the workbook is saved (or
\* the write fails)
SaveWorkbook ==
    /\ pc = "x_sheets"
    /\ ti > Len(args.tables)
    /\ wb' = [wb EXCEPT ![1] = LinkIndexRows(@, 2)]
    /\ \E saved \in BOOLEAN :
          IF saved
          THEN /\ files' = files \cup
                     {PathJoin(out_dir, args.db_name \o XlsxExt)}
               /\ pc' = "done"
               /\ UNCHANGED err
          ELSE /\ pc' = "error"
               /\ err' = "OSError"
               /\ UNCHANGED files
    /\ UNCHANGED <<args, out_dir, dirs, ti, MainVars, CellVars, WidthVars>>

\* dump_db_info_to_csv, lines 38-44: the directory is resolved and created
dump_db_info_to_csv ==
    /\ pc = "idle"
    /\ \E db_name \in DbNames, output_dir \in OutputDirs, tables \in TableLists,
          made \in BOOLEAN :
          /\ args' = [NoArgs EXCEPT !.fn = "dump_db_info_to_csv",
                                    !.db_name = db_name,
                                    !.output_dir = output_dir,
                                    !.tables = tables]
          /\ out_dir' = ResolveOutputDir(output_dir, db_name)
          /\ IF made
             THEN /\ dirs' = dirs \cup MakeDirs(out_dir')
                  /\ ti' = 1
                  /\ pc' = IF tables = <<>> THEN "done" ELSE "c_tables"
                  /\ err' = ""
             ELSE /\ pc' = "error"
                  /\ err' = "OSError"
                  /\ UNCHANGED <<dirs, ti>>
    /\ UNCHANGED <<files, wb, MainVars, CellVars, WidthVars>>

\* one iteration of the loop of lines 47-52: the table's file is written;
\* to_csv raises when the file's directory does not exist or the write fails
WriteCsv ==
    /\ pc = "c_tables"
    /\ ti <= Len(args.tables)
    /\ \E written \in BOOLEAN :
          LET file_path == PathJoin(out_dir, args.tables[ti].name \o CsvExt)
          IN  IF written /\ DirName(file_path) \in dirs
              THEN /\ files' = files \cup {file_path}
                   /\ ti' = ti + 1
                   /\ pc' = IF ti = Len(args.tables) THEN "done" ELSE pc
                   /\ UNCHANGED err
              ELSE /\ pc' = "error"
                   /\ err' = "OSError"
                   /\ UNCHANGED <<files, ti>>
    /\ UNCHANGED <<args, out_dir, dirs, wb, MainVars, CellVars, WidthVars>>

\* main.py starts: the environment decides whether the database connects
MainStart ==
    /\ pc = "idle"
    /\ \E c \in BOOLEAN : conn_ok' = c
    /\ pc' = "main"
    /\ main_pc' = 1
    /\ UNCHANGED <<args, out_dir, dirs, files, wb, ti, err, main_log,
                   exit_code, CellVars, WidthVars>>

\* the next call of the __main__ block: binding the arguments raises
\* TypeError when a parameter without default gets none; a provider raises
\* when the connection fails; an exporter raises when a write fails.  An
\* uncaught exception ends the process with status 1; after the last call
\* it ends with status 0.
MainCall ==
    /\ pc = "main"
    /\ main_pc <= Len(MainCalls)
    /\ \E wrote \in BOOLEAN :
          LET site == MainCalls[main_pc]
              raised ==
                  IF site.positional < RequiredPositional(site.fn)
                  THEN "TypeError"
                  ELSE IF Connects(site.fn) /\ ~conn_ok THEN "DBAPIError"
                  ELSE IF ~Connects(site.fn) /\ ~wrote THEN "OSError"
                  ELSE ""
          IN  IF raised # ""
              THEN /\ err' = raised
                   /\ exit_code' = 1
                   /\ pc' = "exited"
                   /\ UNCHANGED <<main_pc, main_log>>
              ELSE /\ main_log' = Append(main_log, site.fn)
                   /\ main_pc' = main_pc + 1
                   /\ exit_code' = IF main_pc = Len(MainCalls) THEN 0 ELSE exit_code
                   /\ pc' = IF main_pc = Len(MainCalls) THEN "exited" ELSE pc
                   /\ UNCHANGED err
    /\ UNCHANGED <<args, out_dir, dirs, files, wb, ti, conn_ok,
                   CellVars, WidthVars>>

\* the coercion step applied to one cell value
CoerceOne ==
    /\ pc = "idle"
    /\ \E value \in CellValues :
          /\ cell_in' = value
          /\ cell_out' = CoerceCell(value)
    /\ pc' = "coerced"
    /\ UNCHANGED <<args, out_dir, dirs, files, wb, ti, err, MainVars, WidthVars>>

\* adjust_column_widths on a sheet with one column
AdjustColumn ==
    /\ pc = "idle"
    /\ \E lens \in ColumnSet, ceiling \in CeilingSet :
          /\ column' = lens
          /\ max_width' = ceiling
          /\ width2' = adjust_column_widths(<<lens>>, ceiling)[1]
    /\ pc' = "sized"
    /\ UNCHANGED <<args, out_dir, dirs, files, wb, ti, err, MainVars, CellVars>>

\* a data cell of the column gets one character longer and the column is
\* sized again
GrowCell ==
    /\ pc = "sized"
    /\ \E k \in 2..Len(column) :
          /\ column[k] < MaxTextLen
          /\ column' = [column EXCEPT ![k] = @ + 1]
          /\ width2' = adjust_column_widths(<<column'>>, max_width)[1]
    /\ UNCHANGED <<pc, max_width, args, out_dir, dirs, files, wb, ti, err,
                   MainVars, CellVars>>

Next ==
    \/ dump_db_info_to_excel
    \/ WriteDataSheet
    \/ SaveWorkbook
    \/ dump_db_info_to_csv
    \/ WriteCsv
    \/ MainStart
    \/ MainCall
    \/ CoerceOne
    \/ AdjustColumn
    \/ GrowCell

Spec == Init /\ [][Next]_vars

(***************************************************************************)
(* Properties.                                                             *)
(***************************************************************************)
ExcelCall == args.fn = "dump_db_info_to_excel"
CsvCall == args.fn = "dump_db_info_to_csv"

\* the workbook was saved
Produced == ExcelCall /\ pc = "done"

\* the tables whose data sheet is complete
SheetsWritten == 1..(ti - 1)

\* C1: while dump_db_info_to_excel builds the workbook, and in the workbook
\* it saves, the index sheet is first and the data sheets follow it, one per
\* table handled so far, in the mapping's iteration order; the saved
\* workbook has len(tables) + 1 sheets.  An empty mapping gives a workbook
\* of the index sheet alone, with its header row, and the call fails only
\* when the disk does.
C1_SheetPerTableInOrder ==
    (ExcelCall /\ wb # <<>>) =>
        /\ wb[1].title = TablesTitle
        /\ wb[1].table = 0
        /\ wb[1].header # <<>>
        /\ pc = "x_sheets" => Len(wb) = ti
        /\ pc = "done" => Len(wb) = Len(args.tables) + 1
        /\ \A k \in 2..Len(wb) : wb[k].table = k - 1
        /\ args.tables = <<>> =>
              /\ Len(wb) = 1
              /\ wb[1].nrows = 0
              /\ pc = "error" => err = "OSError"

\* C1's case: a workbook saved for a mapping of MaxTables tables
C1_Witness ==
    /\ Produced
    /\ Len(args.tables) = MaxTables
    /\ Len(wb) = MaxTables + 1

\* C2 as stated: every data sheet holds min(len(records),
\* max_records_per_table) data rows, whatever max_records_per_table is
C2_RowsAreMinForEveryCap ==
    ExcelCall =>
        \A k \in SheetsWritten :
            wb[k + 1].nrows =
                Min(args.tables[k].nrows, args.max_records_per_table)

\* C2 amended: for every max_records_per_table that is not negative, every
\* data sheet holds min(len(records), max_records_per_table) data rows
C2_RowsAreMinForNonNegativeCap ==
    (ExcelCall /\ args.max_records_per_table >= 0) =>
        \A k \in SheetsWritten :
            wb[k + 1].nrows =
                Min(args.tables[k].nrows, args.max_records_per_table)

\* C2's case: a saved workbook with a table cut at the cap
C2_Witness ==
    /\ Produced
    /\ args.max_records_per_table = 1
    /\ \E k \in 1..Len(args.tables) :
          /\ args.tables[k].nrows > 1
          /\ wb[k + 1].nrows = 1

\* C3: with include_record_count, the count in each table's index row is
\* the table's number of records before truncation
C3_IndexCountIsTrueCount ==
    (ExcelCall /\ wb # <<>> /\ args.include_record_count) =>
        /\ Len(wb[1].index_rows) = Len(args.tables)
        /\ \A k \in 1..Len(args.tables) :
              /\ wb[1].index_rows[k].name = args.tables[k].name
              /\ wb[1].index_rows[k].count = args.tables[k].nrows

\* C3's case: a saved workbook whose index counts a table that its sheet
\* holds only in part
C3_Witness ==
    /\ Produced
    /\ args.include_record_count
    /\ \E k \in 1..Len(args.tables) :
          /\ wb[k + 1].nrows < args.tables[k].nrows
          /\ wb[1].index_rows[k].count = args.tables[k].nrows

\* C4: in a saved workbook every data sheet is the target of exactly one
\* index hyperlink, the one of its table's index row, to its cell A1; every
\* index hyperlink targets a data sheet; every data sheet holds exactly one
\* hyperlink, to A1 of the index sheet
C4_StarOfHyperlinks ==
    Produced =>
        /\ \A k \in 2..Len(wb) :
              /\ {l \in wb[1].links : l.sheet = wb[k].title}
                    = {l \in wb[1].links : l.col = 1 /\ l.row = k}
              /\ Cardinality({l \in wb[1].links : l.sheet = wb[k].title}) = 1
              /\ Cardinality(wb[k].links) = 1
              /\ \A l \in wb[k].links :
                    l.sheet = wb[1].title /\ l.cell_ref = "A1"
        /\ \A l \in wb[1].links :
              /\ l.cell_ref = "A1"
              /\ \E k \in 2..Len(wb) : wb[k].title = l.sheet

\* C5: the coercion of a cell never raises, and no export ends with an
\* exception of the coercion step
C5_CoercionNeverRaises ==
    /\ pc = "coerced" => ~cell_out.raised
    /\ ~(ExcelCall /\ pc = "error" /\ err = "AttributeError")

\* C6: the coercion keeps integers, floats, booleans and nulls as they are,
\* writes a date or timestamp as a date/time value of the same date and
\* time of day, and writes anything else as its text
C6_CoercionByKind ==
    pc = "coerced" =>
        /\ ~cell_out.raised
        /\ cell_in.type \in {"int", "float", "bool", "NoneType"} =>
              cell_out.val = cell_in
        /\ cell_in.type \in {"date", "datetime", "Timestamp"} =>
              /\ cell_out.val.type \in {"date", "datetime"}
              /\ cell_out.val.day = cell_in.day
              /\ cell_out.val.time = cell_in.time
        /\ cell_in.type \in {"str", "object"} =>
              /\ cell_out.val.type = "str"
              /\ cell_out.val.text = cell_in.text

\* C7: no export ends because of a table name, and in a saved workbook
\* every data sheet's title has at most 31 characters, none of them
\* forbidden, and differs from every other sheet's title
C7_NamesSanitized ==
    /\ ~(ExcelCall /\ pc = "error" /\ err = "ValueError")
    /\ Produced =>
          \A k \in 2..Len(wb) :
              /\ Len(wb[k].title) <= SheetTitleMax
              /\ ~HasInvalidChar(wb[k].title)
              /\ \A j \in 1..Len(wb) : j # k => wb[j].title # wb[k].title

\* the longest data cell of the sized column
LongestValue == SeqMax(Tail(column))

\* the longest table name of the call
LongestName == SeqMax([k \in 1..Len(args.tables) |-> Len(args.tables[k].name)])

\* C8: the width of a sized column is min(max(L, 1.5 * header length) + 2,
\* ceiling), L the text length of its longest value; it is at most the
\* ceiling, and it does not decrease when a value of the column gets longer.
\* The same holds of the index sheet's first column, sized with the default
\* ceiling of 80 from its header "Table" and the table names.
C8_WidthFormula ==
    /\ [](pc = "sized" =>
            /\ width2 = Min(Max(2 * LongestValue, 3 * column[1]) + 4,
                            2 * max_width)
            /\ width2 <= 2 * max_width)
    /\ []((ExcelCall /\ wb # <<>>) =>
            wb[1].widths2[1] =
                Min(Max(2 * LongestName, 3 * Len(TableHeader)) + 4,
                    2 * DefaultMaxWidth))
    /\ [][(pc = "sized" /\ pc' = "sized") => width2' >= width2]_vars

\* C8's case: a column whose header weight, a fraction, decides the width
\* below the ceiling
C8_Witness ==
    /\ pc = "sized"
    /\ Len(column) > 1
    /\ column[1] = 3
    /\ LongestValue = 4
    /\ width2 = 13
    /\ width2 < 2 * max_width

\* the directory <output_dir>/<db_name>
JoinedDir == args.output_dir \o <<"/">> \o args.db_name

\* what the exporters have on disk when they write into directory target
WritesInto(target) ==
    /\ (pc # "error" \/ dirs # {}) => target \in dirs
    /\ ExcelCall =>
          files = IF pc = "done"
                  THEN {target \o <<"/">> \o args.db_name \o XlsxExt}
                  ELSE {}
    /\ CsvCall =>
          files = {target \o <<"/">> \o args.tables[k].name \o CsvExt :
                      k \in SheetsWritten}

FourExports ==
    <<"dump_db_info_to_csv", "dump_db_info_to_excel",
      "dump_db_info_to_csv", "dump_db_info_to_excel">>

\* C10: a run whose connection and writes succeed makes the four exports in
\* order and exits with status 0; a run exits with another status only
\* when the connection or a write failed
C10_MainRunsFourExports ==
    pc = "exited" =>
        /\ exit_code # 0 => err \in {"DBAPIError", "OSError"}
        /\ (conn_ok /\ err # "OSError") =>
              /\ exit_code = 0
              /\ SelectSeq(main_log, LAMBDA fn : ~Connects(fn)) = FourExports

====
